---- MODULE Spec2Model ----
(***************************************************************************)
(* Model of hardkeys.c: a Python 2 extension module with one function,    *)
(* grab_zoom_keys(widget, grab), that writes the _HILDON_ZOOM_KEY_ATOM    *)
(* property of the widget's X window.                                      *)
(*                                                                         *)
(* State: the module global PyGObject_Type, the X server's atom table and *)
(* per-window property store, the reference count of Py_None, the number  *)
(* of call results the caller still holds, and a record of the last call. *)
(***************************************************************************)
EXTENDS Integers, Sequences, FiniteSets, TLC

\* ---- bounds --------------------------------------------------------------
NumWindows == 2
NoneRefInit == 3
MaxHeld == 2
MaxExtraArgs == 1

\* ---- program constants ---------------------------------------------------
INT_MAX == 2147483647
PropFormat == 32
NELEMENTS == 1

NULL == "NULL"
ZOOM_ATOM_NAME == "_HILDON_ZOOM_KEY_ATOM"
XA_INTEGER == "XA_INTEGER"
PropModeReplace == "PropModeReplace"

\* ---- the X server as the module sees it ----------------------------------
Windows == 1..NumWindows
AtomSlots == 1..2
Unset == [type |-> "None", format |-> 0, data |-> <<>>]
NameProp(w) == [type |-> "STRING", format |-> 8, data |-> <<w>>]

\* ---- Python objects passed as arguments ----------------------------------
\* kind: "widget" (a gtk.Widget; window is its X window, 0 when it is not
\* realized), "gobject" (a gobject.GObject that is no widget), "str" (no
\* GObject at all), "int" (a Python integer of value ival that fits a C int),
\* "bigint" (a Python integer outside the range of a C int; ival is its sign).
PyObj(kind, window, ival) == [kind |-> kind, window |-> window, ival |-> ival]
NoObj == PyObj("absent", 0, 0)
Widgets == {PyObj("widget", w, 0) : w \in Windows \cup {0}}
Flags == {-INT_MAX - 1, -1, 0, 1, INT_MAX}
IntObjs == {PyObj("int", 0, i) : i \in Flags} \cup {PyObj("bigint", 0, s) : s \in {-1, 1}}
GObjectObj == PyObj("gobject", 0, 0)
StrObj == PyObj("str", 0, 0)

\* The argument tuples a caller passes: every first argument kind with
\* every flag, and tuples that are too short or too long.
FirstArgs == Widgets \cup {GObjectObj, StrObj, PyObj("int", 0, 1)}
SecondArgs == IntObjs \cup {StrObj}
Pad(k) == [i \in 1..k |-> PyObj("int", 0, 0)]
ArgTuples ==
    {<<>>}
    \cup {<<a>> : a \in FirstArgs}
    \cup {<<a, b>> : a \in FirstArgs, b \in SecondArgs}
    \cup {<<a, PyObj("int", 0, 1)>> \o Pad(k) : a \in Widgets \cup {StrObj},
                                               k \in 1..MaxExtraArgs}

VARIABLES pc, PyGObject_Type, atomTable, props, noneRef, held, last
vars == <<pc, PyGObject_Type, atomTable, props, noneRef, held, last>>

NoCall == [op |-> "none", nargs |-> 0, widget |-> NoObj, flag |-> NoObj,
           result |-> "none", xcalls |-> <<>>, xwrite |-> "none",
           win |-> 0, val |-> 0, prior |-> Unset]

\* ---- helpers of the X protocol ------------------------------------------
AtomIndex(table, name) ==
    IF \E i \in 1..Len(table) : table[i] = name
    THEN CHOOSE i \in 1..Len(table) : table[i] = name
    ELSE 0

\* XInternAtom(dpy, name, only_if_exists): the atom of name, interning the
\* name when it is new and only_if_exists is 0.
XInternAtom(table, name, only_if_exists) ==
    IF AtomIndex(table, name) # 0
    THEN [atom |-> AtomIndex(table, name), table |-> table]
    ELSE IF only_if_exists
         THEN [atom |-> 0, table |-> table]
         ELSE [atom |-> Len(table) + 1, table |-> Append(table, name)]

XChangeProperty_appending(p, w, property, type, format, mode, data, nelements) ==
    [p EXCEPT ![w][property] =
        [type |-> type, format |-> format,
         data |-> p[w][property].data \o SubSeq(data, 1, nelements)]]

XChangeProperty_otherWindow(p, w, property, type, format, mode, data, nelements) ==
    LET o == (w % NumWindows) + 1 IN
    [p EXCEPT ![o][property] =
        [type |-> type, format |-> format, data |-> SubSeq(data, 1, nelements)]]

\* XChangeProperty(dpy, w, property, type, format, mode, data, nelements)
\* as the server carries it out.
XChangeProperty(p, w, property, type, format, mode, data, nelements) ==
    LET new == SubSeq(data, 1, nelements)
        old == p[w][property].data
    IN [p EXCEPT ![w][property] =
           [type |-> type, format |-> format,
            data |-> CASE mode = PropModeReplace -> new
                       [] mode = "PropModeAppend" -> old \o new
                       [] mode = "PropModePrepend" -> new \o old]]

\* The _HILDON_ZOOM_KEY_ATOM property of window w, Unset when absent.
ZoomProp(table, p, w) ==
    IF AtomIndex(table, ZOOM_ATOM_NAME) = 0
    THEN Unset
    ELSE p[w][AtomIndex(table, ZOOM_ATOM_NAME)]

\* ---- argument parsing ----------------------------------------------------
PyType_IsSubtype(obj, type) ==
    type = "GObject" /\ obj.kind \in {"widget", "gobject"}

PyArg_ParseTuple_lax(args, type) ==
    IF Len(args) < 2
    THEN [status |-> "TypeError", py_widget |-> NoObj, grab |-> 0]
    ELSE IF type = NULL
    THEN [status |-> "NullType", py_widget |-> NoObj, grab |-> 0]
    ELSE IF ~PyType_IsSubtype(args[1], type)
    THEN [status |-> "TypeError", py_widget |-> NoObj, grab |-> 0]
    ELSE IF args[2].kind \notin {"int", "bigint"}
    THEN [status |-> "TypeError", py_widget |-> NoObj, grab |-> 0]
    ELSE IF args[2].kind = "bigint"
    THEN [status |-> "OverflowError", py_widget |-> NoObj, grab |-> 0]
    ELSE [status |-> "ok", py_widget |-> args[1], grab |-> args[2].ival]

\* PyArg_ParseTuple(args, "O!i", PyGObject_Type, &py_widget, &grab): the
\* count is checked first, then each argument in order.  A NULL type
\* pointer is dereferenced when the first argument is converted.
PyArg_ParseTuple(args, type) ==
    IF Len(args) # 2
    THEN [status |-> "TypeError", py_widget |-> NoObj, grab |-> 0]
    ELSE IF type = NULL
    THEN [status |-> "NullType", py_widget |-> NoObj, grab |-> 0]
    ELSE IF ~PyType_IsSubtype(args[1], type)
    THEN [status |-> "TypeError", py_widget |-> NoObj, grab |-> 0]
    ELSE IF args[2].kind \notin {"int", "bigint"}
    THEN [status |-> "TypeError", py_widget |-> NoObj, grab |-> 0]
    ELSE IF args[2].kind = "bigint"
    THEN [status |-> "OverflowError", py_widget |-> NoObj, grab |-> 0]
    ELSE [status |-> "ok", py_widget |-> args[1], grab |-> args[2].ival]

GrabVal_swapped(grab) == IF grab # 0 THEN 0 ELSE 1

GrabVal_raw(grab) == grab

\* unsigned long val = grab?1:0;
GrabVal(grab) == IF grab # 0 THEN 1 ELSE 0

ReturnValue_checked(xok) == IF xok THEN "None" ELSE "XError"

\* return Py_None; whatever XChangeProperty did
ReturnValue(xok) == "None"

Arg(args, i) == IF Len(args) >= i THEN args[i] ELSE NoObj

Called(args, result, xcalls, xwrite, win, val, prior) ==
    [op |-> "call", nargs |-> Len(args), widget |-> Arg(args, 1),
     flag |-> Arg(args, 2), result |-> result, xcalls |-> xcalls,
     xwrite |-> xwrite, win |-> win, val |-> val, prior |-> prior]

\* ---- state machine -------------------------------------------------------
Init ==
    /\ pc = "unloaded"
    /\ PyGObject_Type = NULL
    /\ atomTable \in {<<"WM_NAME">>, <<"WM_NAME", ZOOM_ATOM_NAME>>,
                      <<ZOOM_ATOM_NAME, "WM_NAME">>}
    /\ props = [w \in Windows |-> [a \in AtomSlots |->
                  IF a <= Len(atomTable) /\ atomTable[a] = "WM_NAME"
                  THEN NameProp(w) ELSE Unset]]
    /\ noneRef = NoneRefInit
    /\ held = 0
    /\ last = NoCall

\* inithardkeys(): registers the function and caches gobject.GObject when
\* the gobject module can be imported and has that attribute.
inithardkeys(resolved) ==
    /\ pc = "unloaded"
    /\ pc' = "loaded"
    /\ PyGObject_Type' = IF resolved THEN "GObject" ELSE PyGObject_Type
    /\ UNCHANGED <<atomTable, props, noneRef, held, last>>

\* PyArg_ParseTuple fails: return NULL with the exception set.
GrabArgError(args) ==
    LET p == PyArg_ParseTuple(args, PyGObject_Type) IN
    /\ pc = "loaded"
    /\ p.status \in {"TypeError", "OverflowError"}
    /\ last' = Called(args, p.status, <<>>, "none", 0, 0, Unset)
    /\ UNCHANGED <<pc, PyGObject_Type, atomTable, props, noneRef, held>>

\* PyGObject_Type is NULL: the "O!" conversion reads through the null
\* pointer to build its message.
GrabNullType(args) ==
    LET p == PyArg_ParseTuple(args, PyGObject_Type) IN
    /\ pc = "loaded"
    /\ p.status = "NullType"
    /\ \E out \in {"crash", "TypeError"} :
         /\ last' = Called(args, out, <<>>, "none", 0, 0, Unset)
         /\ pc' = IF out = "crash" THEN "crashed" ELSE pc
    /\ UNCHANGED <<PyGObject_Type, atomTable, props, noneRef, held>>

\* The widget has no window: gdk_x11_drawable_get_xdisplay(NULL) gives no
\* display and XInternAtom is called on it.
GrabUnrealized(args) ==
    LET p == PyArg_ParseTuple(args, PyGObject_Type) IN
    /\ pc = "loaded"
    /\ p.status = "ok"
    /\ p.py_widget.kind = "widget"
    /\ p.py_widget.window = 0
    /\ pc' = "crashed"
    /\ last' = Called(args, "crash", <<>>, "none", 0, 0, Unset)
    /\ UNCHANGED <<PyGObject_Type, atomTable, props, noneRef, held>>

\* The body after parsing, for display window win: two XInternAtom calls,
\* the value selection and the XChangeProperty request, which the server
\* carries out (xok) or rejects; then return Py_None.
GrabBody(args, grab, win, xok) ==
    LET a1 == XInternAtom(atomTable, ZOOM_ATOM_NAME, FALSE)
        a2 == XInternAtom(a1.table, ZOOM_ATOM_NAME, FALSE)
        val == GrabVal(grab)
    IN
    /\ held < MaxHeld
    /\ atomTable' = a2.table
    /\ props' = IF xok
                THEN XChangeProperty(props, win, a2.atom, XA_INTEGER, PropFormat,
                                     PropModeReplace, <<val>>, NELEMENTS)
                ELSE props
    /\ held' = held + 1
    /\ last' = Called(args, ReturnValue(xok),
                      <<"XInternAtom", "XInternAtom", "XChangeProperty">>,
                      IF xok THEN "ok" ELSE "failed", win, val,
                      ZoomProp(atomTable, props, win))
    /\ UNCHANGED <<pc, PyGObject_Type, noneRef>>

\* A realized widget: the call the module is written for.
GrabWrite(args, xok) ==
    LET p == PyArg_ParseTuple(args, PyGObject_Type) IN
    /\ pc = "loaded"
    /\ p.status = "ok"
    /\ p.py_widget.kind = "widget"
    /\ p.py_widget.window \in Windows
    /\ GrabBody(args, p.grab, p.py_widget.window, xok)

\* A GObject that is no widget passes "O!": GTK_WIDGET() only warns, and
\* widget->window reads past the object.  The process crashes, or the
\* body runs on whatever window the stray pointer names.
GrabNotWidget(args) ==
    LET p == PyArg_ParseTuple(args, PyGObject_Type) IN
    /\ pc = "loaded"
    /\ p.status = "ok"
    /\ p.py_widget.kind = "gobject"
    /\ \/ /\ pc' = "crashed"
          /\ last' = Called(args, "crash", <<>>, "none", 0, 0, Unset)
          /\ UNCHANGED <<PyGObject_Type, atomTable, props, noneRef, held>>
       \/ \E win \in Windows, xok \in BOOLEAN : GrabBody(args, p.grab, win, xok)

hardkeys_grab_zoom_keys(args) ==
    \/ GrabArgError(args)
    \/ GrabNullType(args)
    \/ GrabUnrealized(args)
    \/ GrabNotWidget(args)
    \/ \E xok \in BOOLEAN : GrabWrite(args, xok)

\* The caller drops a result it holds (Py_DECREF).  The call took no
\* reference of its own, so the count of None goes down by one; at zero
\* the interpreter aborts ("deallocating None").
ReleaseResult ==
    /\ pc = "loaded"
    /\ held > 0
    /\ held' = held - 1
    /\ noneRef' = noneRef - 1
    /\ pc' = IF noneRef - 1 = 0 THEN "crashed" ELSE pc
    /\ UNCHANGED <<PyGObject_Type, atomTable, props, last>>

Next ==
    \/ \E resolved \in BOOLEAN : inithardkeys(resolved)
    \/ \E args \in ArgTuples : hardkeys_grab_zoom_keys(args)
    \/ ReleaseResult

Spec == Init /\ [][Next]_vars

TypeOK ==
    /\ pc \in {"unloaded", "loaded", "crashed"}
    /\ PyGObject_Type \in {NULL, "GObject"}
    /\ noneRef \in 0..NoneRefInit
    /\ held \in 0..MaxHeld

\* ---- vocabulary of the properties -----------------------------------------
Realized(o) == o.kind = "widget" /\ o.window \in Windows
Truth(flag) == IF flag.ival # 0 THEN 1 ELSE 0
FlagProp(v) == [type |-> XA_INTEGER, format |-> PropFormat, data |-> <<v>>]
CurZoom(w) == ZoomProp(atomTable, props, w)
\* The last call was made on a realized widget with a flag that parses.
OnWindow == /\ last.op = "call" /\ last.nargs = 2
            /\ Realized(last.widget) /\ last.flag.kind = "int"
\* This step is a call that returned None to the caller.
Returned == held' = held + 1

C2_NonWidgetRejected ==
    (last.op = "call" /\ last.nargs = 2 /\ PyGObject_Type = "GObject"
        /\ last.widget.kind # "widget")
        => (last.result \in {"TypeError", "OverflowError"} /\ last.xcalls = <<>>)

\* C3: a call with any number of arguments other than two returns a
\* TypeError before any X request is made; the atom table and every
\* property are as before.
C3_ArgCountRejected ==
    [][(last'.op = "call" /\ last'.nargs # 2)
          => /\ last'.result = "TypeError"
             /\ last'.xcalls = <<>>
             /\ props' = props
             /\ atomTable' = atomTable]_vars

C3_Witness ==
    /\ last.op = "call" /\ last.nargs > 2 /\ Realized(last.widget)
    /\ last.result = "TypeError" /\ last.xcalls = <<>>
    /\ PyGObject_Type = "GObject"

SameCallAgain ==
    /\ OnWindow /\ last.result = "None"
    /\ Returned
    /\ last'.widget = last.widget
    /\ last'.flag.kind = "int"
    /\ Truth(last'.flag) = Truth(last.flag)

C6_WriteFailureNotSurfaced ==
    /\ (OnWindow /\ PyGObject_Type = "GObject")
          => (last.result = "None" /\ last.xwrite \in {"ok", "failed"})
    /\ last.xwrite = "failed" => last.result = "None"

C6_Witness ==
    /\ OnWindow /\ last.xwrite = "failed" /\ last.result = "None"
    /\ CurZoom(last.widget.window) = Unset

\* C7: a call on a realized widget W that returns None changes no property
\* other than _HILDON_ZOOM_KEY_ATOM of W, renames no atom, and leaves
\* PyGObject_Type alone.
C7_OnlyZoomPropertyOfW ==
    [][(Returned /\ Realized(last'.widget))
          => /\ \A w \in Windows, a \in AtomSlots :
                   (w # last'.widget.window
                       \/ a # AtomIndex(atomTable', ZOOM_ATOM_NAME))
                   => props'[w][a] = props[w][a]
             /\ \A i \in 1..Len(atomTable) : atomTable'[i] = atomTable[i]
             /\ PyGObject_Type' = PyGObject_Type]_vars

C7_Witness ==
    /\ OnWindow /\ last.xwrite = "ok"
    /\ CurZoom(last.widget.window) # last.prior
    /\ \E w \in Windows : w # last.widget.window /\ CurZoom(w) = Unset
    /\ props[last.widget.window][AtomIndex(atomTable, "WM_NAME")]
          = NameProp(last.widget.window)

\* C8 (as stated): once the module is loaded PyGObject_Type is resolved,
\* and no later step changes it.
C8_TypeResolvedAfterLoad ==
    pc # "unloaded" => PyGObject_Type # NULL

\* C9: the property of every window is unset or a single element 0 or 1,
\* and every value handed to the server is 1 for a non-zero flag and 0 for
\* a zero flag, for negative and large flags too.
C9_FlagNormalised ==
    /\ \A w \in Windows :
          CurZoom(w) = Unset \/ CurZoom(w).data \in {<<0>>, <<1>>}
    /\ (last.op = "call" /\ last.xwrite # "none")
          => last.val = Truth(last.flag)

C9_Witness ==
    /\ OnWindow /\ last.xwrite = "ok"
    /\ last.flag.ival \in {-INT_MAX - 1, -1, INT_MAX}
    /\ CurZoom(last.widget.window) = FlagProp(1)

\* C10 (as stated): once the caller has released every result it was
\* handed, the reference count of None is what it was before the first call.
C10_NoneRefBalanced ==
    (pc = "loaded" /\ held = 0) => noneRef = NoneRefInit
====
